---- MODULE Spec2Model ----
(***************************************************************************)
(* Model of setup.py of pykimuracore: a distutils build script that        *)
(* declares one extension module, pykimuracore, compiled from the          *)
(* Cython-generated pykimuracore.c, and hands it to distutils.core.setup.  *)
(*                                                                         *)
(* The state is the interpreter state of one run of the script (the two    *)
(* module-level names, the keyword arguments of setup(), the position in   *)
(* the script and in the build_ext command that setup() runs) and the      *)
(* part of the file system the run reads and writes: the source files, the *)
(* artifacts under build/lib.* (the objects under build/temp.* are held   *)
(* in the run, which always recompiles them before it links).             *)
(* Between runs the developer writes or deletes source files.              *)
(*                                                                         *)
(* The steps behind setup() are those of the distutils the script imports  *)
(* (core.setup, command.build_ext.build_extension, dep_util.newer_group,   *)
(* unixccompiler compile and link).  A failure is named by its cause as    *)
(* the toolchain's diagnostic gives it: SourceNotFoundError when the       *)
(* compiler cannot open the source, CompilationError when it rejects it,   *)
(* LinkError when the linker has no input.                                 *)
(***************************************************************************)
EXTENDS Integers, Sequences, FiniteSets, TLC

\* Bound of the logical clock that stamps written files.
MaxTime == 4

\* Source paths of the working directory, in Python's string order.
PathOrder == <<"a.c", "pykimuracore.c">>
Paths == {PathOrder[i] : i \in 1..Len(PathOrder)}

\* File contents: two sources the compiler accepts, one it rejects.
GoodContents == {"v1", "v2"}
Contents == GoodContents \cup {"bad"}

\* Arguments of Declare(name, sources) for the descriptor-level checks: an
\* empty or module name, and every list of distinct source paths.  (A path
\* listed twice gives the linker the same object twice, which it rejects.)
Names == {"", "a", "pykimuracore"}
SourceLists ==
    {s \in UNION {[1..k -> Paths] : k \in 0..Cardinality(Paths)} :
        \A i, j \in 1..Len(s) : s[i] = s[j] => i = j}

VARIABLES
    pc,           \* position of the run: idle, line8, line10, setup,
                  \* build_ext, compile, exit, exited
    force,        \* the run was started as "build --force"
    my_ext_name,  \* module-level name bound at line 8
    my_ext,       \* module-level name bound at line 10
    setup_args,   \* keyword arguments of the setup() call, lines 12-16
    nDeclared,    \* Extension objects constructed in this run
    todo,         \* sources build_ext has still to compile
    objects,      \* objects compiled so far in this run
    ccCalls,      \* compiler processes spawned in this run
    err,          \* the error the run failed with, "none" otherwise
    exit,         \* exit status of the run, -1 while it has none
    fs,           \* source files: present, content, mtime
    out,          \* build/lib.*: the artifacts
    now,          \* logical clock
    prevOut,      \* build/lib.* as it was when this run started
    repeat        \* this run started right after a run that exited 0,
                  \* with no change to the sources in between

vars == <<pc, force, my_ext_name, my_ext, setup_args, nDeclared, todo,
          objects, ccCalls, err, exit, fs, out, now, prevOut, repeat>>

interp == <<my_ext_name, my_ext, setup_args, nDeclared>>
disk == <<fs, out, now>>
hist == <<prevOut, repeat>>

NoName == "<unbound>"
NoExt == [name |-> NoName, sources |-> <<>>]
NoArgs == [name |-> NoName, version |-> NoName, ext_modules |-> <<>>]
NoFile == [present |-> FALSE, content |-> "none", mtime |-> 0]

----------------------------------------------------------------------------
\* Pure helpers.

\* distutils.extension.Extension(name, sources): stores its arguments; it
\* asserts only their types.
Extension(name, sources) == [name |-> name, sources |-> sources]

Rank(p) == CHOOSE i \in 1..Len(PathOrder) : PathOrder[i] = p

RECURSIVE Insert(_, _)
Insert(p, s) ==
    IF s = <<>> THEN <<p>>
    ELSE IF Rank(p) <= Rank(Head(s)) THEN <<p>> \o s
    ELSE <<Head(s)>> \o Insert(p, Tail(s))

\* sorted(sources) of build_extension.
RECURSIVE Sorted(_)
Sorted(s) == IF s = <<>> THEN <<>> ELSE Insert(Head(s), Sorted(Tail(s)))

\* The artifacts of build/lib.* with load name n.
ArtifactsOf(dir, n) == {f \in dir : f.name = n}

\* dep_util.newer_group(sources, target, missing): the target is out of date.
NewerGroup(sources, n, missing) ==
    \/ ArtifactsOf(out, n) = {}
    \/ \E i \in 1..Len(sources) :
          /\ \A j \in 1..(i-1) : fs[sources[j]].present
          /\ IF fs[sources[i]].present
             THEN \E f \in ArtifactsOf(out, n) : fs[sources[i]].mtime > f.mtime
             ELSE missing = "newer"

\* The object the compiler makes of an accepted source.
ObjectCode(content) == <<"obj", content>>

\* What a compiler process reports for a source path.
CompilerDiagnostic(p) ==
    IF ~fs[p].present THEN "SourceNotFoundError"
    ELSE IF fs[p].content \notin GoodContents THEN "CompilationError"
    ELSE "none"

----------------------------------------------------------------------------
Init ==
    /\ pc = "idle"
    /\ force = FALSE
    /\ my_ext_name = NoName
    /\ my_ext = NoExt
    /\ setup_args = NoArgs
    /\ nDeclared = 0
    /\ todo = <<>>
    /\ objects = <<>>
    /\ ccCalls = 0
    /\ err = "none"
    /\ exit = -1
    /\ fs = [p \in Paths |-> NoFile]
    /\ out = {}
    /\ now = 0
    /\ prevOut = {}
    /\ repeat = FALSE

\* The developer writes a source file.
WriteSource(p, c) ==
    /\ pc \in {"idle", "exited"}
    /\ now < MaxTime
    /\ ~(fs[p].present /\ fs[p].content = c)
    /\ now' = now + 1
    /\ fs' = [fs EXCEPT ![p] = [present |-> TRUE, content |-> c, mtime |-> now + 1]]
    /\ pc' = "idle"
    /\ UNCHANGED <<force, interp, todo, objects, ccCalls, err, exit, out, hist>>

\* The developer deletes a source file.
DeleteSource(p) ==
    /\ pc \in {"idle", "exited"}
    /\ fs[p].present
    /\ fs' = [fs EXCEPT ![p] = NoFile]
    /\ pc' = "idle"
    /\ UNCHANGED <<force, interp, todo, objects, ccCalls, err, exit, out, now, hist>>

\* "python setup.py build [--force]": a fresh interpreter.
StartInvocation(f) ==
    /\ pc \in {"idle", "exited"}
    /\ now < MaxTime
    /\ pc' = "line8"
    /\ force' = f
    /\ my_ext_name' = NoName
    /\ my_ext' = NoExt
    /\ setup_args' = NoArgs
    /\ nDeclared' = 0
    /\ todo' = <<>>
    /\ objects' = <<>>
    /\ ccCalls' = 0
    /\ err' = "none"
    /\ exit' = -1
    /\ prevOut' = out
    /\ repeat' = (pc = "exited" /\ exit = 0)
    /\ UNCHANGED disk

\* Line 8: my_ext_name = 'pykimuracore'
Line8 ==
    /\ pc = "line8"
    /\ my_ext_name' = "pykimuracore"
    /\ pc' = "line10"
    /\ UNCHANGED <<force, my_ext, setup_args, nDeclared, todo, objects, ccCalls,
                   err, exit, disk, hist>>

\* Line 10 with the source list not derived from the name.
Line10OtherSource ==
    /\ pc = "line10"
    /\ my_ext' = Extension(my_ext_name, <<"a.c">>)
    /\ nDeclared' = nDeclared + 1
    /\ pc' = "setup"
    /\ UNCHANGED <<force, my_ext_name, setup_args, todo, objects, ccCalls,
                   err, exit, disk, hist>>

\* Line 10: my_ext = Extension(my_ext_name, [my_ext_name + '.c'])
Line10 ==
    /\ pc = "line10"
    /\ my_ext' = Extension(my_ext_name, <<my_ext_name \o ".c">>)
    /\ nDeclared' = nDeclared + 1
    /\ pc' = "setup"
    /\ UNCHANGED <<force, my_ext_name, setup_args, todo, objects, ccCalls,
                   err, exit, disk, hist>>

\* The setup() call with a second Extension built inline for ext_modules.
SetupCallRedeclaring ==
    /\ pc = "setup"
    /\ nDeclared' = nDeclared + 1
    /\ setup_args' = [name |-> my_ext_name, version |-> "0.1",
                      ext_modules |-> <<Extension(my_ext_name, my_ext.sources)>>]
    /\ pc' = "build_ext"
    /\ UNCHANGED <<force, my_ext_name, my_ext, todo, objects, ccCalls,
                   err, exit, disk, hist>>

\* Lines 12-16: setup(name = my_ext_name, version = '0.1', ext_modules = [my_ext])
SetupCall ==
    /\ pc = "setup"
    /\ setup_args' = [name |-> my_ext_name, version |-> "0.1",
                      ext_modules |-> <<my_ext>>]
    /\ pc' = "build_ext"
    /\ UNCHANGED <<force, my_ext_name, my_ext, nDeclared, todo, objects, ccCalls,
                   err, exit, disk, hist>>

\* build_extension with missing sources ignored by the up-to-date test.
BuildExtensionIgnoringMissing ==
    /\ pc = "build_ext"
    /\ LET ext == setup_args.ext_modules[1]
           sources == Sorted(ext.sources)
       IN IF force \/ NewerGroup(sources, ext.name, "ignore")
          THEN /\ todo' = sources
               /\ pc' = "compile"
          ELSE /\ todo' = <<>>
               /\ pc' = "exit"
    /\ UNCHANGED <<force, interp, objects, ccCalls, err, exit, disk, hist>>

\* build_ext.build_extension, up to the compile: skip an up-to-date target.
BuildExtension ==
    /\ pc = "build_ext"
    /\ LET ext == setup_args.ext_modules[1]
           sources == Sorted(ext.sources)
       IN IF force \/ NewerGroup(sources, ext.name, "newer")
          THEN /\ todo' = sources
               /\ pc' = "compile"
          ELSE /\ todo' = <<>>
               /\ pc' = "exit"
    /\ UNCHANGED <<force, interp, objects, ccCalls, err, exit, disk, hist>>

\* A compile step that opens the output artifact before it compiles, and
\* leaves it truncated when the compiler fails.
CompileOneTruncating ==
    /\ pc = "compile"
    /\ todo # <<>>
    /\ ccCalls' = ccCalls + 1
    /\ LET p == Head(todo)
           d == CompilerDiagnostic(p)
           n == setup_args.ext_modules[1].name
       IN IF d = "none"
          THEN /\ objects' = Append(objects, ObjectCode(fs[p].content))
               /\ todo' = Tail(todo)
               /\ UNCHANGED <<pc, err, out>>
          ELSE /\ err' = d
               /\ pc' = "exit"
               /\ out' = (out \ ArtifactsOf(out, n)) \cup
                         {[name |-> n, code |-> <<>>, mtime |-> now,
                           complete |-> FALSE]}
               /\ UNCHANGED <<objects, todo>>
    /\ UNCHANGED <<force, interp, exit, fs, now, hist>>

\* A compile step that runs the compiler a second time when it fails.
CompileOneRetrying ==
    /\ pc = "compile"
    /\ todo # <<>>
    /\ ccCalls' = ccCalls + 1
    /\ LET p == Head(todo)
           d == CompilerDiagnostic(p)
       IN IF d = "none"
          THEN /\ objects' = Append(objects, ObjectCode(fs[p].content))
               /\ todo' = Tail(todo)
               /\ UNCHANGED <<pc, err>>
          ELSE IF ccCalls = 0
          THEN UNCHANGED <<pc, err, objects, todo>>
          ELSE /\ err' = d
               /\ pc' = "exit"
               /\ UNCHANGED <<objects, todo>>
    /\ UNCHANGED <<force, interp, exit, fs, out, now, hist>>

\* CCompiler.compile: one compiler process per source, in order; the first
\* failure raises and leaves the objects already there.
CompileOne ==
    /\ pc = "compile"
    /\ todo # <<>>
    /\ ccCalls' = ccCalls + 1
    /\ LET p == Head(todo)
           d == CompilerDiagnostic(p)
       IN IF d = "none"
          THEN /\ objects' = Append(objects, ObjectCode(fs[p].content))
               /\ todo' = Tail(todo)
               /\ UNCHANGED <<pc, err>>
          ELSE /\ err' = d
               /\ pc' = "exit"
               /\ UNCHANGED <<objects, todo>>
    /\ UNCHANGED <<force, interp, exit, fs, out, now, hist>>

\* A link step that writes the artifact beside the one that was there.
LinkKeepingOld ==
    /\ pc = "compile"
    /\ todo = <<>>
    /\ LET ext == setup_args.ext_modules[1]
       IN IF objects = <<>>
          THEN /\ err' = "LinkError"
               /\ UNCHANGED <<out, now>>
          ELSE /\ now' = now + 1
               /\ out' = out \cup
                         {[name |-> ext.name, code |-> objects,
                           mtime |-> now + 1, complete |-> TRUE]}
               /\ UNCHANGED err
    /\ pc' = "exit"
    /\ UNCHANGED <<force, interp, todo, objects, ccCalls, exit, fs, hist>>

\* A link step that appends to the artifact that was there.
LinkAppending ==
    /\ pc = "compile"
    /\ todo = <<>>
    /\ LET ext == setup_args.ext_modules[1]
           old == IF ArtifactsOf(out, ext.name) = {} THEN <<>>
                  ELSE (CHOOSE f \in ArtifactsOf(out, ext.name) : TRUE).code
       IN IF objects = <<>>
          THEN /\ err' = "LinkError"
               /\ UNCHANGED <<out, now>>
          ELSE /\ now' = now + 1
               /\ out' = (out \ ArtifactsOf(out, ext.name)) \cup
                         {[name |-> ext.name, code |-> old \o objects,
                           mtime |-> now + 1, complete |-> TRUE]}
               /\ UNCHANGED err
    /\ pc' = "exit"
    /\ UNCHANGED <<force, interp, todo, objects, ccCalls, exit, fs, hist>>

\* CCompiler.link_shared_object: the objects become the artifact named after
\* the extension, in place of the one that was there.
Link ==
    /\ pc = "compile"
    /\ todo = <<>>
    /\ LET ext == setup_args.ext_modules[1]
       IN IF objects = <<>>
          THEN /\ err' = "LinkError"
               /\ UNCHANGED <<out, now>>
          ELSE /\ now' = now + 1
               /\ out' = (out \ ArtifactsOf(out, ext.name)) \cup
                         {[name |-> ext.name, code |-> objects,
                           mtime |-> now + 1, complete |-> TRUE]}
               /\ UNCHANGED err
    /\ pc' = "exit"
    /\ UNCHANGED <<force, interp, todo, objects, ccCalls, exit, fs, hist>>

\* A setup() that catches the build error and returns.
TerminateSwallowing ==
    /\ pc = "exit"
    /\ exit' = 0
    /\ pc' = "exited"
    /\ UNCHANGED <<force, interp, todo, objects, ccCalls, err, disk, hist>>

\* core.setup turns a build error into SystemExit("error: ..."); the
\* interpreter exits with status 1 on it and 0 otherwise.
Terminate ==
    /\ pc = "exit"
    /\ exit' = IF err = "none" THEN 0 ELSE 1
    /\ pc' = "exited"
    /\ UNCHANGED <<force, interp, todo, objects, ccCalls, err, disk, hist>>

Environment ==
    \/ \E p \in Paths, c \in Contents : WriteSource(p, c)
    \/ \E p \in Paths : DeleteSource(p)

Build == SetupCall \/ BuildExtension \/ CompileOne \/ Link \/ Terminate

Next ==
    \/ Environment
    \/ \E f \in BOOLEAN : StartInvocation(f)
    \/ Line8
    \/ Line10
    \/ Build

Spec == Init /\ [][Next]_vars

\* The interpreter is single-threaded and synchronous: a started run keeps
\* executing until it exits.
FairSpec == Spec /\ WF_vars(Line8 \/ Line10 \/ Build)

----------------------------------------------------------------------------
\* A Declare that rejects an empty name or an empty source list.
DeclareAnyValidating(n, s) ==
    /\ pc = "line8"
    /\ my_ext_name' = n
    /\ IF n = "" \/ s = <<>>
       THEN /\ err' = "ConfigurationError"
            /\ pc' = "exit"
            /\ UNCHANGED <<my_ext, nDeclared>>
       ELSE /\ my_ext' = Extension(n, s)
            /\ nDeclared' = nDeclared + 1
            /\ pc' = "setup"
            /\ UNCHANGED err
    /\ UNCHANGED <<force, setup_args, todo, objects, ccCalls, exit, disk, hist>>

\* A Declare that looks its sources up in the working directory.
DeclareAnyStatting(n, s) ==
    /\ pc = "line8"
    /\ my_ext_name' = n
    /\ IF \E i \in 1..Len(s) : ~fs[s[i]].present
       THEN /\ err' = "SourceNotFoundError"
            /\ pc' = "exit"
            /\ UNCHANGED <<my_ext, nDeclared>>
       ELSE /\ my_ext' = Extension(n, s)
            /\ nDeclared' = nDeclared + 1
            /\ pc' = "setup"
            /\ UNCHANGED err
    /\ UNCHANGED <<force, setup_args, todo, objects, ccCalls, exit, disk, hist>>

\* Declare(name, sources) followed by Build for an arbitrary descriptor:
\* lines 8-10 with the name and the source list as parameters.
DeclareAny(n, s) ==
    /\ pc = "line8"
    /\ my_ext_name' = n
    /\ my_ext' = Extension(n, s)
    /\ nDeclared' = nDeclared + 1
    /\ pc' = "setup"
    /\ UNCHANGED <<force, setup_args, todo, objects, ccCalls, err, exit, disk, hist>>

NextDeclare ==
    \/ Environment
    \/ \E f \in BOOLEAN : StartInvocation(f)
    \/ \E n \in Names, s \in SourceLists : DeclareAny(n, s)
    \/ Build

SpecDeclare == Init /\ [][NextDeclare]_vars

----------------------------------------------------------------------------
\* Vocabulary of the properties.

Running == pc \in {"line8", "line10", "setup", "build_ext", "compile", "exit"}
Declared == my_ext # NoExt
SourcesOf(e) == {e.sources[i] : i \in 1..Len(e.sources)}
MissingSource == \E p \in SourcesOf(my_ext) : ~fs[p].present
\* Name and code of each artifact, without the time stamp.
Bits(dir) == {[name |-> f.name, code |-> f.code] : f \in dir}

----------------------------------------------------------------------------
C4_NoPartialArtifact ==
    /\ (/\ pc = "exited"
        /\ Declared
        /\ \E p \in SourcesOf(my_ext) : fs[p].present /\ fs[p].content \notin GoodContents)
       => (err = "CompilationError" /\ exit # 0)
    /\ err = "CompilationError"
       => /\ out = prevOut
          /\ \A f \in out : f.complete /\ ArtifactsOf(out, f.name) = {f}

\* A compilation has failed over the artifact of an earlier build.
C4_Witness ==
    /\ pc = "exited"
    /\ err = "CompilationError"
    /\ ArtifactsOf(out, "pykimuracore") # {}

\* C5: a run has status 0 exactly when it raised no error, and then the
\* artifact exists and is complete; every error ends the run with a
\* non-zero status.
C5_ExitCodeIffSuccess ==
    /\ pc = "exited"
       => /\ exit \in {0, 1}
          /\ (exit = 0) <=> (err = "none")
          /\ exit = 0 => \E f \in ArtifactsOf(out, my_ext.name) : f.complete
    /\ (err # "none" /\ pc = "exited") => exit # 0

\* A failed run has ended with status 1.
C5_Witness ==
    /\ pc = "exited"
    /\ err \in {"SourceNotFoundError", "CompilationError"}
    /\ exit = 1

\* C6: a run started right after a successful run, with the sources
\* untouched, succeeds too and leaves the same artifacts, bit for bit, with
\* exactly one under the extension's name.
C6_BuildIdempotent ==
    (pc = "exited" /\ repeat)
    => /\ exit = 0
       /\ Bits(out) = Bits(prevOut)
       /\ Cardinality(ArtifactsOf(out, my_ext.name)) = 1

\* The second build was forced, so the artifact was written again.
C6_Witness ==
    /\ pc = "exited"
    /\ repeat
    /\ force
    /\ out # prevOut

\* C7: a Declare step changes neither the sources nor build/lib.* and
\* reads no file: it returns a descriptor also when a listed source does
\* not exist; SourceNotFoundError is only ever raised by the compiler that
\* Build runs.
C7_DeclareIsPure ==
    /\ [][(pc = "line8" /\ pc' # "line8")
            => /\ fs' = fs
               /\ out' = out
               /\ now' = now
               /\ pc' = "setup"
               /\ err' = "none"
               /\ my_ext' # NoExt]_vars
    /\ [](err = "SourceNotFoundError"
            => /\ pc \notin {"line8", "line10", "setup", "build_ext"}
               /\ ccCalls >= 1
               /\ Declared)

\* Declare returned a descriptor for a missing source, and Build reported it.
C7_Witness ==
    /\ pc = "exited"
    /\ err = "SourceNotFoundError"
    /\ my_ext.name # ""
    /\ \A p \in SourcesOf(my_ext) : ~fs[p].present

\* C8: a run constructs one Extension, once; a run starts with no
\* descriptor and no setup() arguments; from its construction to the end of
\* the run the descriptor keeps its name and sources, and setup() holds
\* that descriptor and the version '0.1' unchanged.
C8_OneImmutableDescriptor ==
    /\ [](/\ nDeclared <= 1
          /\ pc \in {"setup", "build_ext", "compile", "exit", "exited"}
               => (nDeclared = 1 /\ Declared)
          /\ pc \in {"line8", "line10"} => (my_ext = NoExt /\ setup_args = NoArgs)
          /\ pc \in {"build_ext", "compile", "exit", "exited"}
               => (setup_args.ext_modules = <<my_ext>> /\ setup_args.version = "0.1"))
    /\ [][(Declared /\ pc' # "line8") => my_ext' = my_ext]_vars
    /\ [][(setup_args # NoArgs /\ pc' # "line8") => setup_args' = setup_args]_vars

\* The build step has consumed the descriptor.
C8_Witness ==
    /\ pc = "exited"
    /\ nDeclared = 1
    /\ setup_args.ext_modules = <<my_ext>>
    /\ out # prevOut

\* C9: the build steps run only on a declared descriptor; a run spawns at
\* most one compiler process for its source, failed or not; build/lib.* is
\* untouched until the link step, after which the run only exits; and every
\* started run exits.
C9_LinearInvocation ==
    /\ [](/\ pc \in {"build_ext", "compile"}
               => (Declared /\ setup_args.ext_modules = <<my_ext>>)
          /\ ccCalls <= 1
          /\ pc \in {"line8", "line10", "setup", "build_ext", "compile"}
               => out = prevOut
          /\ (err # "none" /\ Running) => pc = "exit")
    /\ [][pc = "exit" => pc' = "exited"]_vars
    /\ (Running ~> pc = "exited")

\* A run has compiled once, failed and exited.
C9_Witness ==
    /\ pc = "exited"
    /\ ccCalls = 1
    /\ err = "CompilationError"

\* C10: the descriptor is the one the module-name constant determines:
\* extension name, distribution name and source stem are 'pykimuracore',
\* the sources are the single path name + '.c', setup() gets one extension
\* module and the version '0.1'.
C10_DescriptorFromName ==
    /\ Declared
       => /\ my_ext_name = "pykimuracore"
          /\ my_ext.name = my_ext_name
          /\ my_ext.sources = <<my_ext_name \o ".c">>
          /\ my_ext.sources = <<"pykimuracore.c">>
    /\ setup_args # NoArgs
       => /\ setup_args.name = my_ext.name
          /\ Len(setup_args.ext_modules) = 1
          /\ setup_args.ext_modules[1] = my_ext
          /\ setup_args.version = "0.1"

\* setup() has been called with the descriptor.
C10_Witness ==
    /\ pc = "build_ext"
    /\ setup_args.name = "pykimuracore"
    /\ setup_args.ext_modules = <<Extension("pykimuracore", <<"pykimuracore.c">>)>>

====
